---------------------------- MODULE Spec2Model ----------------------------
(***************************************************************************)
(* ObjC header reconstruction of internal/commands/macho/objc.go:          *)
(* Imports.uniq, ObjC.scanFoundation, ObjC.processForwardDeclarations,     *)
(* ObjC.Headers, writeHeader and transformSetter.                          *)
(*                                                                         *)
(* Go strings are sequences of one-character strings, compared bytewise    *)
(* through Ord, so that sorting, binary search, trimming and suffix        *)
(* stripping are computed the way the Go library computes them.            *)
(***************************************************************************)
EXTENDS Integers, Sequences, FiniteSets, TLC

VARIABLES
    foundation,   \* o.foundation: [classes, protocols], two sequences of names
    cache,        \* o.cache: no shared cache, or its two reference images
    deps,         \* o.deps: the dependency binaries, in order
    file,         \* o.file: the primary binary
    confName,     \* o.conf.Name
    pc,           \* position of the running operation
    bin,          \* Headers: index of the binary being written (deps, then file)
    idx,          \* Headers: index of the next descriptor of the current phase
    headers,      \* writeHeaders: the `headers` slice of the current binary
    imps,         \* writeHeaders: the map returned by processForwardDeclarations
    seen,         \* writeHeaders: the `seen` identity set of the protocol loop
    fs,           \* the file system: path -> content of every file written
    log,          \* every writeHeader call made, in order, with its outcome
    err,          \* the error Headers returned ("" while none)
    raw,          \* Imports.uniq: the raw Imports value given to the first call
    imp,          \* Imports.uniq: the Imports value the method mutates
    calls         \* Imports.uniq: number of calls made on imp

vars == <<foundation, cache, deps, file, confName, pc, bin, idx, headers, imps,
          seen, fs, log, err, raw, imp, calls>>

----------------------------------------------------------------------------
(* Bounds of the model.                                                    *)

\* total number of entries of a raw Imports value (all four slices together)
MaxRaw == 3
\* length of each of the two FoundationIndex sequences drawn directly
MaxIndex == 2

----------------------------------------------------------------------------
(* Go strings.                                                             *)

\* the bytes that occur in the modelled strings, in increasing byte value
Alphabet ==
    <<" ", "\"", "*", "+", ",", "-", ".", "/", ":", "<", ">", "@",
      "A", "B", "C", "D", "E", "F", "G", "H", "I", "J", "K", "L", "M",
      "N", "O", "P", "Q", "R", "S", "T", "U", "V", "W", "X", "Y", "Z", "_",
      "a", "b", "c", "d", "e", "f", "g", "h", "i", "j", "k", "l", "m",
      "n", "o", "p", "q", "r", "s", "t", "u", "v", "w", "x", "y", "z">>

Ord(c) == CHOOSE i \in 1..Len(Alphabet) : Alphabet[i] = c

\* cmp.Compare / the < of Go strings: bytewise lexicographic order
RECURSIVE StrLess(_, _)
StrLess(a, b) ==
    IF b = <<>> THEN FALSE
    ELSE IF a = <<>> THEN TRUE
    ELSE IF Head(a) = Head(b) THEN StrLess(Tail(a), Tail(b))
    ELSE Ord(Head(a)) < Ord(Head(b))

HasPrefix(s, p) == Len(s) >= Len(p) /\ SubSeq(s, 1, Len(p)) = p

HasSuffix(s, p) ==
    Len(s) >= Len(p) /\ SubSeq(s, Len(s) - Len(p) + 1, Len(s)) = p

TrimPrefix(s, p) == IF HasPrefix(s, p) THEN SubSeq(s, Len(p) + 1, Len(s)) ELSE s

TrimSuffix(s, p) == IF HasSuffix(s, p) THEN SubSeq(s, 1, Len(s) - Len(p)) ELSE s

\* strings.Trim(s, cutset): drop every leading and trailing byte of cutset
RECURSIVE TrimLeft(_, _)
TrimLeft(s, cutset) ==
    IF s # <<>> /\ Head(s) \in cutset THEN TrimLeft(Tail(s), cutset) ELSE s

RECURSIVE TrimRight(_, _)
TrimRight(s, cutset) ==
    IF s # <<>> /\ s[Len(s)] \in cutset
    THEN TrimRight(SubSeq(s, 1, Len(s) - 1), cutset)
    ELSE s

Trim(s, cutset) == TrimRight(TrimLeft(s, cutset), cutset)

ContainsAny(s, chars) == \E i \in 1..Len(s) : s[i] \in chars

\* strings.ReplaceAll(s, old, new) for one-byte old and new
ReplaceAll(s, old, new) == [i \in 1..Len(s) |-> IF s[i] = old THEN new ELSE s[i]]

\* slices.Contains
Contains(s, x) == \E i \in 1..Len(s) : s[i] = x

----------------------------------------------------------------------------
(* package slices.                                                         *)

RECURSIVE InsertSorted(_, _)
InsertSorted(s, x) ==
    IF s = <<>> THEN <<x>>
    ELSE IF StrLess(x, Head(s)) THEN <<x>> \o s
    ELSE <<Head(s)>> \o InsertSorted(Tail(s), x)

\* slices.Sort on []string
RECURSIVE Sort(_)
Sort(s) == IF s = <<>> THEN <<>> ELSE InsertSorted(Sort(SubSeq(s, 1, Len(s) - 1)), s[Len(s)])

\* slices.Compact: collapse runs of equal neighbours
RECURSIVE Compact(_)
Compact(s) ==
    IF Len(s) <= 1 THEN s
    ELSE IF s[1] = s[2] THEN Compact(Tail(s))
    ELSE <<s[1]>> \o Compact(Tail(s))

\* slices.BinarySearch: the lower-bound search of the Go library, which
\* trusts, and never checks, that the slice is sorted
RECURSIVE BinarySearchFrom(_, _, _, _)
BinarySearchFrom(x, target, i, j) ==
    IF i < j
    THEN LET h == (i + j) \div 2
         IN  IF StrLess(x[h + 1], target)
             THEN BinarySearchFrom(x, target, h + 1, j)
             ELSE BinarySearchFrom(x, target, i, h)
    ELSE i

BinarySearch(x, target) ==
    LET i == BinarySearchFrom(x, target, 0, Len(x))
    IN  i < Len(x) /\ x[i + 1] = target

----------------------------------------------------------------------------
(* String constants of the source.                                         *)

DotH == <<".", "h">>
ProtocolH == <<"-", "P", "r", "o", "t", "o", "c", "o", "l", ".", "h">>
NSObject == <<"N", "S", "O", "b", "j", "e", "c", "t">>
NSObjectLt == NSObject \o <<"<">>
Foundation == <<"F", "o", "u", "n", "d", "a", "t", "i", "o", "n">>

\* names used as inputs
NSString == <<"N", "S", "S", "t", "r", "i", "n", "g">>
NSCopying == <<"N", "S", "C", "o", "p", "y", "i", "n", "g">>

----------------------------------------------------------------------------
(* Imports.uniq                                                            *)

\* the name a Locals entry is looked up under
StripLocal(l) == TrimSuffix(TrimSuffix(l, ProtocolH), DotH)

\* the DeleteFunc predicate of Locals
LocalsOnlyClasses(f, l) == BinarySearch(f.classes, StripLocal(l))

IsFoundationLocal(f, l) ==
    \/ BinarySearch(f.classes, StripLocal(l))
    \/ BinarySearch(f.protocols, StripLocal(l))

\* sort and compact of the four slices
NormalizeNoSort(s) == Compact(s)

Normalize(s) == Compact(Sort(s))

uniq(i, f) ==
    LET keepLocal(l) == ~IsFoundationLocal(f, l)
        keepClass(c) == ~BinarySearch(f.classes, c)
        keepProto(p) == ~BinarySearch(f.protocols, p)
    IN  [Imports |-> Normalize(i.Imports),
         Locals  |-> SelectSeq(Normalize(i.Locals), keepLocal),
         Classes |-> SelectSeq(Normalize(i.Classes), keepClass),
         Protos  |-> SelectSeq(Normalize(i.Protos), keepProto)]

EmptyImports == [Imports |-> <<>>, Locals |-> <<>>, Classes |-> <<>>, Protos |-> <<>>]

\* o.cache == nil
NilCache == <<>>

----------------------------------------------------------------------------
(* ObjC.processForwardDeclarations                                         *)
(*                                                                         *)
(* A class descriptor is [Name, SuperClass, Protocols, Ivars, Props,       *)
(* InstanceMethods, ClassMethods]; an ivar or a property is [Name, Type];  *)
(* a method is [Name, Args], Args[i + 1] being method.ArgumentType(i); a   *)
(* protocol descriptor is [Name, Ptr]; a category descriptor is            *)
(* [Name, Class], Class = <<>> when cat.Class is nil or unnamed.           *)

UpperLetters ==
    <<"A", "B", "C", "D", "E", "F", "G", "H", "I", "J", "K", "L", "M",
      "N", "O", "P", "Q", "R", "S", "T", "U", "V", "W", "X", "Y", "Z">>

LowerLetters ==
    <<"a", "b", "c", "d", "e", "f", "g", "h", "i", "j", "k", "l", "m",
      "n", "o", "p", "q", "r", "s", "t", "u", "v", "w", "x", "y", "z">>

\* unicode.IsUpper(r) && unicode.IsLetter(r) on a byte of the modelled range
IsUpperLetter(c) == \E k \in 1..Len(UpperLetters) : UpperLetters[k] = c

\* slices.SortStableFunc(xs, by Name): a stable insertion by the Name key
RECURSIVE InsertStable(_, _)
InsertStable(s, x) ==
    IF s = <<>> THEN <<x>>
    ELSE IF StrLess(x.Name, Head(s).Name) THEN <<x>> \o s
    ELSE <<Head(s)>> \o InsertStable(Tail(s), x)

RECURSIVE SortStableByName(_)
SortStableByName(s) ==
    IF s = <<>> THEN <<>>
    ELSE InsertStable(SortStableByName(SubSeq(s, 1, Len(s) - 1)), s[Len(s)])

Names(s) == [k \in 1..Len(s) |-> s[k].Name]

AddLocal(i, x) == [i EXCEPT !.Locals = Append(@, x)]
AddClass(i, x) == [i EXCEPT !.Classes = Append(@, x)]
AddProto(i, x) == [i EXCEPT !.Protos = Append(@, x)]

\* a protocol reference: local include if the binary has the protocol
ProtoRef(i, protoNames, typ) ==
    IF Contains(protoNames, typ)
    THEN AddLocal(i, typ \o ProtocolH)
    ELSE AddProto(i, typ)

\* the class lookup that forward-declares even a class of the binary
ClassRefNeverLocal(i, classNames, typ) == AddClass(i, typ)

\* a class reference: local include if the binary has the class
ClassRef(i, classNames, typ) ==
    IF Contains(classNames, typ)
    THEN AddLocal(i, typ \o DotH)
    ELSE AddClass(i, typ)

\* the `<...>` branch shared by ivars and properties, typ already trimmed
ProtoListRefs(i, protoNames, typ) ==
    LET isNSObject == HasPrefix(typ, NSObjectLt)
        inner == IF isNSObject
                 THEN TrimSuffix(TrimPrefix(typ, NSObjectLt), <<">">>)
                 ELSE typ
        i1 == IF isNSObject THEN ProtoRef(i, protoNames, inner) ELSE i
    IN  ProtoRef(i1, protoNames, Trim(inner, {"<", ">"}))

\* one iteration of `for _, ivar := range class.Ivars`
IvarRefs(i, classNames, protoNames, typ) ==
    IF ContainsAny(typ, {"<", ">"})
    THEN ProtoListRefs(i, protoNames, Trim(typ, {"@", "\""}))
    ELSE IF HasPrefix(typ, <<"@", "\"">>)
         THEN ClassRef(i, classNames,
                       TrimSuffix(TrimPrefix(typ, <<"@", "\"">>), <<"\"">>))
         ELSE i

\* the declaration-style object-pointer test of properties and arguments
IsObjectPointer(typ) ==
    Len(typ) > 0 /\ IsUpperLetter(typ[1]) /\ HasSuffix(typ, <<"*">>)

\* one iteration of `for _, prop := range class.Props`
PropRefs(i, classNames, protoNames, typ) ==
    IF ContainsAny(typ, {"<", ">"})
    THEN ProtoListRefs(i, protoNames, Trim(Trim(typ, {"@", "\""}), {" ", "*"}))
    ELSE IF IsObjectPointer(typ)
         THEN ClassRef(i, classNames, Trim(typ, {" ", "*"}))
         ELSE i

NSObjectCutset == {"N", "S", "O", "b", "j", "e", "c", "t", "<", ">"}

\* the body of the argument loop of an instance method
InstanceArgRefs(i, classNames, protoNames, typ) ==
    IF IsObjectPointer(typ)
    THEN IF Contains(classNames, typ)
         THEN AddLocal(i, typ \o DotH)
         ELSE IF Contains(protoNames, Trim(typ, NSObjectCutset))
              THEN AddLocal(i, Trim(typ, NSObjectCutset) \o ProtocolH)
              ELSE AddClass(i, typ)
    ELSE i

\* the body of the argument loop of a class method
ClassArgRefs(i, classNames, protoNames, typ) ==
    IF IsObjectPointer(typ)
    THEN IF Contains(classNames, typ)
         THEN AddLocal(i, typ \o DotH)
         ELSE AddClass(i, typ)
    ELSE i

\* `for i := 0; i < n; i++ { ...; if i == 0 { i += 2 } }`: the argument
\* indices the loop body runs on, in order
RECURSIVE ArgIndicesFrom(_, _)
ArgIndicesFrom(k, n) ==
    IF k < n
    THEN <<k>> \o ArgIndicesFrom((IF k = 0 THEN k + 2 ELSE k) + 1, n)
    ELSE <<>>

ArgIndices(method) == ArgIndicesFrom(0, Len(method.Args))

RECURSIVE MethodRefs(_, _, _, _, _, _)
MethodRefs(i, classNames, protoNames, method, indices, isInstance) ==
    IF indices = <<>> THEN i
    ELSE LET typ == method.Args[Head(indices) + 1]
             i1 == IF isInstance
                   THEN InstanceArgRefs(i, classNames, protoNames, typ)
                   ELSE ClassArgRefs(i, classNames, protoNames, typ)
         IN  MethodRefs(i1, classNames, protoNames, method, Tail(indices),
                        isInstance)

\* the loops over a class's members, each a left fold in slice order
RECURSIVE AdoptedRefs(_, _, _)
AdoptedRefs(i, protoNames, prots) ==
    IF prots = <<>> THEN i
    ELSE AdoptedRefs(ProtoRef(i, protoNames, Head(prots)), protoNames, Tail(prots))

RECURSIVE AllIvarRefs(_, _, _, _)
AllIvarRefs(i, classNames, protoNames, ivars) ==
    IF ivars = <<>> THEN i
    ELSE AllIvarRefs(IvarRefs(i, classNames, protoNames, Head(ivars).Type),
                     classNames, protoNames, Tail(ivars))

RECURSIVE AllPropRefs(_, _, _, _)
AllPropRefs(i, classNames, protoNames, props) ==
    IF props = <<>> THEN i
    ELSE AllPropRefs(PropRefs(i, classNames, protoNames, Head(props).Type),
                     classNames, protoNames, Tail(props))

RECURSIVE AllMethodRefs(_, _, _, _, _)
AllMethodRefs(i, classNames, protoNames, methods, isInstance) ==
    IF methods = <<>> THEN i
    ELSE AllMethodRefs(
             MethodRefs(i, classNames, protoNames, Head(methods),
                        ArgIndices(Head(methods)), isInstance),
             classNames, protoNames, Tail(methods), isInstance)

\* the raw Imports of one class: the body of `for _, class := range classes`
\* up to, and without, the call of uniq
classRefs(class, classNames, protoNames) ==
    LET i0 == IF class.SuperClass = NSObject
              THEN [EmptyImports EXCEPT !.Imports = <<Foundation>>]
              ELSE EmptyImports
        i1 == AdoptedRefs(i0, protoNames, class.Protocols)
        i2 == AllIvarRefs(i1, classNames, protoNames, class.Ivars)
        i3 == AllPropRefs(i2, classNames, protoNames, class.Props)
        i4 == AllMethodRefs(i3, classNames, protoNames, class.InstanceMethods, TRUE)
    IN  AllMethodRefs(i4, classNames, protoNames, class.ClassMethods, FALSE)

\* imps[class.Name] = imp for every class in sorted order: a later class of
\* the same name replaces the earlier entry
RECURSIVE StoreImports(_, _, _, _, _)
StoreImports(m, classes, classNames, protoNames, f) ==
    IF classes = <<>> THEN m
    ELSE LET c == Head(classes)
             v == uniq(classRefs(c, classNames, protoNames), f)
             m1 == [n \in DOMAIN m \cup {c.Name} |-> IF n = c.Name THEN v ELSE m[n]]
         IN  StoreImports(m1, Tail(classes), classNames, protoNames, f)

\* the map processForwardDeclarations returns for binary m; a binary whose
\* class or protocol list cannot be decoded makes it return the error
processForwardDeclarations(m, f) ==
    IF m.ParseErr \in {"classes", "protocols"}
    THEN [err |-> m.ParseErr, imps |-> <<>>]
    ELSE LET classes == SortStableByName(m.Classes)
             protos == SortStableByName(m.Protos)
         IN  [err |-> "",
              imps |-> StoreImports(<<>>, classes, Names(classes), Names(protos), f)]

\* imps[name] of a Go map: the zero Imports for a missing key
ImportsOf(m, name) == IF name \in DOMAIN m THEN m[name] ELSE EmptyImports

----------------------------------------------------------------------------
(* Inputs of Imports.uniq.                                                 *)

A == <<"A">>
B == <<"B">>
P == <<"P">>

\* the sequences over S of length n
SeqsOfLen(S, n) == [1..n -> S]

SeqsUpTo(S, n) == UNION {SeqsOfLen(S, k) : k \in 0..n}

IsSorted(s) == \A i \in 1..(Len(s) - 1) : ~StrLess(s[i + 1], s[i])

IndexNames == {NSObject, NSCopying}

\* a FoundationIndex as scanFoundation leaves it: both sequences sorted
SortedIndexes ==
    {f \in [classes : SeqsUpTo(IndexNames, MaxIndex),
            protocols : SeqsUpTo(IndexNames, MaxIndex)] :
        IsSorted(f.classes) /\ IsSorted(f.protocols)}

RawImportsPool == {Foundation}
RawLocalsPool == {A \o DotH, NSObject \o DotH, NSCopying \o ProtocolH}
RawClassesPool == {A, NSObject, NSCopying}
RawProtosPool == {P, NSObject, NSCopying}

\* the values of the variables an operation does not use
IdleBinary == [HasObjC |-> FALSE, DylibID |-> <<>>, ParseErr |-> "",
               BuildVersions |-> <<>>, SourceVersion |-> <<>>,
               Classes |-> <<>>, Protos |-> <<>>, Cats |-> <<>>]

IdleHeaders ==
    /\ cache = NilCache /\ deps = <<>> /\ file = IdleBinary /\ confName = <<>>
    /\ bin = 0 /\ idx = 0 /\ headers = <<>> /\ imps = <<>> /\ seen = {}
    /\ fs = <<>> /\ log = <<>> /\ err = ""

IdleUniq == raw = EmptyImports /\ imp = EmptyImports /\ calls = 0

----------------------------------------------------------------------------
(* Specification SpecUniq: Imports.uniq called on a raw Imports value, and *)
(* called again on its own result.                                         *)

\* number of uniq calls followed on one value
MaxCalls == 2

InitUniq ==
    /\ IdleHeaders
    /\ pc = "uniq"
    /\ foundation \in SortedIndexes
    /\ \E n1 \in 0..MaxRaw : \E n2 \in 0..(MaxRaw - n1) :
       \E n3 \in 0..(MaxRaw - n1 - n2) : \E n4 \in 0..(MaxRaw - n1 - n2 - n3) :
         raw \in [Imports : SeqsOfLen(RawImportsPool, n1),
                  Locals : SeqsOfLen(RawLocalsPool, n2),
                  Classes : SeqsOfLen(RawClassesPool, n3),
                  Protos : SeqsOfLen(RawProtosPool, n4)]
    /\ imp = raw
    /\ calls = 0

CallUniq ==
    /\ pc = "uniq"
    /\ calls < MaxCalls
    /\ imp' = uniq(imp, foundation)
    /\ calls' = calls + 1
    /\ UNCHANGED <<foundation, cache, deps, file, confName, pc, bin, idx,
                   headers, imps, seen, fs, log, err, raw>>

NextUniq == CallUniq

SpecUniq == InitUniq /\ [][NextUniq]_vars

\* C1: uniq is idempotent: once uniq has been applied to a raw Imports value
\* under a sorted FoundationIndex, applying it again changes none of the four
\* sets.
C1_UniqIdempotent ==
    calls >= 1 => uniq(imp, foundation) = imp

\* a second call has been made on a value whose first call removed
\* duplicates and Foundation names
C1_Witness ==
    /\ calls = 2
    /\ imp # raw
    /\ Len(imp.Locals) + Len(imp.Classes) + Len(imp.Protos) >= 1
    /\ Len(raw.Locals) + Len(raw.Classes) + Len(raw.Protos) = MaxRaw

SetOf(s) == {s[i] : i \in 1..Len(s)}

FoundationNames == SetOf(foundation.classes) \cup SetOf(foundation.protocols)

\* C2 as claimed: after uniq no FoundationIndex name, class or protocol, is
\* left in Classes, in Protos or in the suffix-stripped Locals.
C2_SuppressionAsClaimed ==
    calls >= 1 =>
        \A n \in FoundationNames :
            /\ n \notin SetOf(imp.Classes)
            /\ n \notin SetOf(imp.Protos)
            /\ n \notin {StripLocal(imp.Locals[i]) : i \in 1..Len(imp.Locals)}

\* C2 as amended: after uniq no Foundation class name is left in Classes, no
\* Foundation protocol name is left in Protos, and no Foundation class or
\* protocol name is left in Locals once `-Protocol.h` and then `.h` are
\* stripped.
C2_Suppression ==
    calls >= 1 =>
        /\ \A n \in SetOf(foundation.classes) : n \notin SetOf(imp.Classes)
        /\ \A n \in SetOf(foundation.protocols) : n \notin SetOf(imp.Protos)
        /\ \A n \in FoundationNames :
               n \notin {StripLocal(imp.Locals[i]) : i \in 1..Len(imp.Locals)}

\* uniq has dropped a Foundation name from each of Locals, Classes, Protos
C2_Witness ==
    /\ calls = 1
    /\ \E i \in 1..Len(raw.Locals) : StripLocal(raw.Locals[i]) \in FoundationNames
    /\ \E i \in 1..Len(raw.Classes) : raw.Classes[i] \in SetOf(foundation.classes)
    /\ \E i \in 1..Len(raw.Protos) : raw.Protos[i] \in SetOf(foundation.protocols)

----------------------------------------------------------------------------
(* Specification SpecDecl: processForwardDeclarations on one binary whose  *)
(* class A draws its superclass, adopted protocols, ivars, properties and  *)
(* methods from pools of type encodings, beside classes and protocols of   *)
(* the same binary that its references may or may not resolve to.          *)

\* total number of adopted protocols, ivars, properties and methods of A
MaxRefs == 2

Q == <<"Q">>

\* the ivar encoding @"Name"
Quoted(name) == <<"@", "\"">> \o name \o <<"\"">>

\* the declaration style `Name *`
Pointer(name) == name \o <<" ", "*">>

NSObjectOf(list) == NSObjectLt \o list \o <<">">>

TypeInt == <<"i", "n", "t">>
TypeId == <<"i", "d">>
TypeSEL == <<"S", "E", "L">>

IvarPool ==
    {[Name |-> <<"_", "x">>, Type |-> t] :
        t \in {Quoted(B), Quoted(P), Quoted(NSObjectOf(P)),
               Quoted(<<"<">> \o P \o <<">">>),
               Quoted(NSObjectOf(P \o <<",">> \o Q)), <<"i">>}}

PropPool ==
    {[Name |-> <<"x">>, Type |-> t] :
        t \in {Pointer(B), Pointer(P), Pointer(NSObjectOf(P)),
               TypeId \o <<"<">> \o P \o <<">">>, TypeInt}}

MethodPool ==
    {[Name |-> <<"m", ":">>, Args |-> <<TypeId, TypeSEL>> \o a] :
        a \in {<<>>, <<Pointer(B)>>, <<TypeInt, Pointer(P)>>}}

PlainClass(name) ==
    [Name |-> name, SuperClass |-> NSObject, Protocols |-> <<>>, Ivars |-> <<>>,
     Props |-> <<>>, InstanceMethods |-> <<>>, ClassMethods |-> <<>>]

\* the classes and protocols that may stand beside A in the binary
DeclClassSets == {<<>>, <<PlainClass(B)>>, <<PlainClass(P)>>,
                  <<PlainClass(P), PlainClass(B)>>}

DeclProtoSets == {<<>>, <<[Name |-> P, Ptr |-> 1]>>,
                  <<[Name |-> Q, Ptr |-> 2], [Name |-> P, Ptr |-> 1]>>}

SystemIndex == [classes |-> <<NSObject, NSString>>, protocols |-> <<NSCopying, NSObject>>]

EmptyIndex == [classes |-> <<>>, protocols |-> <<>>]

InitDecl ==
    /\ IdleUniq
    /\ cache = NilCache /\ deps = <<>> /\ confName = <<>>
    /\ bin = 0 /\ idx = 0 /\ headers = <<>> /\ imps = <<>> /\ seen = {}
    /\ fs = <<>> /\ log = <<>> /\ err = ""
    /\ pc = "decl"
    /\ foundation \in {EmptyIndex, SystemIndex}
    /\ \E n1 \in 0..MaxRefs : \E n2 \in 0..(MaxRefs - n1) :
       \E n3 \in 0..(MaxRefs - n1 - n2) : \E n4 \in 0..(MaxRefs - n1 - n2 - n3) :
       \E n5 \in 0..(MaxRefs - n1 - n2 - n3 - n4) :
       \E a \in [Name : {A}, SuperClass : {NSObject, B},
                 Protocols : SeqsOfLen({P, Q}, n1),
                 Ivars : SeqsOfLen(IvarPool, n2),
                 Props : SeqsOfLen(PropPool, n3),
                 InstanceMethods : SeqsOfLen(MethodPool, n4),
                 ClassMethods : SeqsOfLen(MethodPool, n5)] :
       \E cs \in DeclClassSets : \E ps \in DeclProtoSets :
           file = [IdleBinary EXCEPT !.HasObjC = TRUE,
                                     !.Classes = <<a>> \o cs, !.Protos = ps]

\* imps, err := o.processForwardDeclarations(m)
Declare ==
    /\ pc = "decl"
    /\ LET r == processForwardDeclarations(file, foundation)
       IN  imps' = r.imps /\ err' = r.err
    /\ pc' = "declared"
    /\ UNCHANGED <<foundation, cache, deps, file, confName, bin, idx, headers,
                   seen, fs, log, raw, imp, calls>>

NextDecl == Declare

SpecDecl == InitDecl /\ [][NextDecl]_vars

\* a sequence that lists the names of a set, for slices.Contains
RECURSIVE SetToNames(_)
SetToNames(S) ==
    IF S = {} THEN <<>>
    ELSE LET x == CHOOSE y \in S : TRUE IN <<x>> \o SetToNames(S \ {x})

LocalClassNames == {file.Classes[k].Name : k \in 1..Len(file.Classes)}

LocalProtoNames == {file.Protos[k].Name : k \in 1..Len(file.Protos)}

----------------------------------------------------------------------------
(* ObjC.scanFoundation                                                     *)
(*                                                                         *)
(* o.cache is NilCache or the pair <<Foundation, CoreFoundation>> of       *)
(* reference images; an image is [Fail, Classes, Protos], Fail naming the  *)
(* call that returns an error for it ("" when none does).                  *)


\* the loop body for one image, on the index accumulated so far
scanImage(r, img) ==
    IF r.err # "" THEN r
    ELSE IF img.Fail \in {"image", "macho", "classes"}
    THEN [r EXCEPT !.err = img.Fail]
    ELSE LET cs == r.f.classes \o Names(SortStableByName(img.Classes))
         IN  IF img.Fail = "protocols"
             THEN [err |-> img.Fail, f |-> [r.f EXCEPT !.classes = cs]]
             ELSE [err |-> "",
                   f |-> [classes |-> Sort(cs),
                          protocols |->
                              Sort(r.f.protocols
                                   \o Names(SortStableByName(img.Protos)))]]

\* an index that is never filled
scanFoundationNoIndex(c) == [err |-> "", f |-> [classes |-> <<>>, protocols |-> <<>>]]

scanFoundation(c) ==
    LET empty == [err |-> "", f |-> [classes |-> <<>>, protocols |-> <<>>]]
    IN  IF c = NilCache THEN empty ELSE scanImage(scanImage(empty, c[1]), c[2])

----------------------------------------------------------------------------
(* transformSetter and the accessor stripping of the class loop            *)

ToLower(c) ==
    IF IsUpperLetter(c)
    THEN LowerLetters[CHOOSE k \in 1..Len(UpperLetters) : UpperLetters[k] = c]
    ELSE c

SetText == <<"s", "e", "t">>

\* a transform that keeps the case of the first letter
transformSetterKeepCase(in) ==
    IF HasPrefix(in, SetText)
    THEN TrimSuffix(TrimPrefix(in, SetText), <<":">>)
    ELSE in

transformSetter(in) ==
    IF HasPrefix(in, SetText)
    THEN LET t == TrimSuffix(TrimPrefix(in, SetText), <<":">>)
         IN  IF Len(t) > 0 THEN <<ToLower(t[1])>> \o Tail(t) ELSE <<>>
    ELSE in

\* the class as the loop body leaves it before it is rendered
stripAccessors(class) ==
    LET props == Sort(Names(class.Props))
        keepIvar(i) == ~Contains(props, TrimPrefix(i.Name, <<"_">>))
        keepMethod(m) ==
            ~(Contains(props, m.Name) \/ Contains(props, transformSetter(m.Name)))
    IN  [class EXCEPT !.Ivars = SelectSeq(@, keepIvar),
                      !.InstanceMethods = SelectSeq(@, keepMethod)]

----------------------------------------------------------------------------
(* writeHeader and the paths of ObjC.Headers                               *)

Slash == <<"/">>

\* filepath.Join(o.conf.Output, dir, name), relative to the output root; an
\* empty element is dropped by Join
JoinPath(dir, name) == IF dir = <<>> THEN name ELSE dir \o Slash \o name

\* filepath.Base of a path that does not end in a separator
RECURSIVE Base(_)
Base(path) ==
    IF \E k \in 1..Len(path) : path[k] = "/"
    THEN Base(Tail(path))
    ELSE path

\* filepath.Dir of a joined path
RECURSIVE Dir(_)
Dir(path) ==
    IF path = <<>> THEN <<>>
    ELSE IF path[Len(path)] = "/" THEN SubSeq(path, 1, Len(path) - 1)
    ELSE Dir(SubSeq(path, 1, Len(path) - 1))

IfndefText == <<"#", "i", "f", "n", "d", "e", "f", " ">>
DefineText == <<"#", "d", "e", "f", "i", "n", "e", " ">>
EndifText == <<"#", "e", "n", "d", "i", "f", " ", "/", "*", " ">>
GuardSuffix == <<"_", "h">>
ImportText == <<"#", "i", "m", "p", "o", "r", "t", " ", "\"">>
UmbrellaSuffix == <<"-", "U", "m", "b", "r", "e", "l", "l", "a">>

\* the text writeHeader builds for hinfo, section by section: the comment
\* block, the include guard lines, the Foundation import, the local
\* includes, the @class and @protocol lists, the body, the closing line
headerText(hinfo) ==
    [Comment |-> <<hinfo.IpswVersion, hinfo.BuildVersions, hinfo.SourceVersion>>,
     Ifndef |-> IfndefText \o hinfo.Name \o GuardSuffix,
     Define |-> DefineText \o hinfo.Name \o GuardSuffix,
     ImportFoundation |-> ~hinfo.IsUmbrella,
     Includes |-> hinfo.Imports.Locals,
     ClassDecl |-> hinfo.Imports.Classes,
     ProtocolDecl |-> hinfo.Imports.Protos,
     Object |-> hinfo.Object,
     Endif |-> EndifText \o hinfo.Name \o GuardSuffix \o <<" ", "*", "/">>]

\* the module directory and name writeHeaders works under for binary m
moduleName(m, name) == IF m.DylibID # <<>> THEN Base(m.DylibID) ELSE name

IpswVersion == <<"v">>

hinfoOf(m, fname, name, imports, object, isUmbrella) ==
    [FileName |-> fname, IpswVersion |-> IpswVersion,
     BuildVersions |-> m.BuildVersions, SourceVersion |-> m.SourceVersion,
     IsUmbrella |-> isUmbrella, Name |-> name, Imports |-> imports,
     Object |-> object]

\* the headerInfo of the class loop
classHeader(m, name, im, class) ==
    hinfoOf(m, JoinPath(name, class.Name \o DotH), class.Name,
            ImportsOf(im, class.Name),
            [Kind |-> "class", Decl |-> stripAccessors(class)], FALSE)

\* the headerInfo of the protocol loop
protocolHeader(m, name, im, proto) ==
    hinfoOf(m, JoinPath(name, proto.Name \o ProtocolH), proto.Name,
            ImportsOf(im, proto.Name),
            [Kind |-> "protocol", Decl |-> proto], FALSE)

\* the category file name
categoryFileName(cat) ==
    IF cat.Class # <<>>
    THEN cat.Class \o <<"+">> \o cat.Name \o DotH
    ELSE cat.Name \o DotH

\* the headerInfo of the category loop
categoryHeader(m, name, im, cat) ==
    hinfoOf(m, JoinPath(name, categoryFileName(cat)), cat.Name,
            ImportsOf(im, cat.Name),
            [Kind |-> "category", Decl |-> cat], FALSE)

\* an umbrella name that only looks at the class headers
umbrellaNameClassesOnly(m, name, hs) ==
    IF \E k \in 1..Len(m.Classes) : m.Classes[k].Name = name
    THEN name \o UmbrellaSuffix
    ELSE name

\* the umbrella name chosen from the headers emitted so far
umbrellaName(m, name, hs) ==
    IF Contains(hs, name \o DotH) THEN name \o UmbrellaSuffix ELSE name

\* the include-guard name of the umbrella
umbrellaGuard(umbrella) == ReplaceAll(umbrella, "-", "_")

ImportLine(h) == ImportText \o h \o <<"\"">>

\* an umbrella whose lines are in the reverse of the emission order
umbrellaHeaderReversed(m, name, hs) ==
    LET umbrella == umbrellaName(m, name, hs)
    IN  hinfoOf(m, JoinPath(name, umbrella \o DotH), umbrellaGuard(umbrella),
                EmptyImports,
                [k \in 1..Len(hs) |-> ImportLine(hs[Len(hs) + 1 - k])], TRUE)

\* the headerInfo of the umbrella header
umbrellaHeader(m, name, hs) ==
    LET umbrella == umbrellaName(m, name, hs)
    IN  hinfoOf(m, JoinPath(name, umbrella \o DotH), umbrellaGuard(umbrella),
                EmptyImports, [k \in 1..Len(hs) |-> ImportLine(hs[k])], TRUE)

----------------------------------------------------------------------------
(* ObjC.Headers: scanFoundation, then writeHeaders on every dependency     *)
(* binary and on the primary binary, one writeHeader call per step.        *)

Binaries == deps \o <<file>>

Cur == Binaries[bin]

\* os.MkdirAll or os.WriteFile may fail on any call of writeHeader;
\* os.WriteFile opens the path with O_TRUNC and then writes, so it fails
\* either before the path is touched ("write") or after the path was
\* truncated ("torn")
WriteOutcomes == {"ok", "mkdir", "write", "torn"}

\* the content of a file that a failed os.WriteFile truncated
Partial == [Partial |-> TRUE]

Put(f, k, v) == [x \in DOMAIN f \cup {k} |-> IF x = k THEN v ELSE f[x]]

\* `if err := writeHeader(...); err != nil { return err }`
afterWrite(outcome, next) == IF outcome = "ok" THEN next ELSE "done"

\* writeHeader(hinfo) with the given outcome of its file system calls; the
\* call is logged with the descriptor it renders (kind, position k in the
\* sorted list, entity name) and the module it is written under
writeHeader(hinfo, outcome, kind, k, entity) ==
    /\ fs' = CASE outcome = "ok" -> Put(fs, hinfo.FileName, headerText(hinfo))
               [] outcome = "torn" -> Put(fs, hinfo.FileName, Partial)
               [] OTHER -> fs
    /\ err' = CASE outcome = "ok" -> err
                [] outcome = "mkdir" -> "mkdir"
                [] OTHER -> "write"
    /\ log' = Append(log, [Bin |-> bin, Kind |-> kind, Idx |-> k,
                           Module |-> confName, Entity |-> entity,
                           Path |-> hinfo.FileName, Outcome |-> outcome,
                           Text |-> headerText(hinfo)])

\* err := o.scanFoundation(); a failure returns from Headers
ScanFoundation ==
    /\ pc = "start"
    /\ LET r == scanFoundation(cache)
       IN  /\ foundation' = r.f
           /\ err' = r.err
           /\ pc' = IF r.err # "" THEN "done" ELSE "binary"
           /\ bin' = IF r.err # "" THEN bin ELSE 1
    /\ UNCHANGED <<cache, deps, file, confName, idx, headers, imps, seen, fs,
                   log, raw, imp, calls>>

\* writeHeaders(m) up to the class loop: the HasObjC test, the module name,
\* processForwardDeclarations
EnterBinary ==
    /\ pc = "binary"
    /\ IF ~Cur.HasObjC
       THEN /\ pc' = IF bin < Len(Binaries) THEN "binary" ELSE "done"
            /\ bin' = IF bin < Len(Binaries) THEN bin + 1 ELSE bin
            /\ UNCHANGED <<confName, imps, err, idx>>
       ELSE LET r == processForwardDeclarations(Cur, foundation)
            IN  /\ confName' = moduleName(Cur, confName)
                /\ imps' = r.imps
                /\ err' = r.err
                /\ pc' = IF r.err # "" THEN "done" ELSE "classes"
                /\ idx' = 1
                /\ bin' = bin
    /\ headers' = <<>>
    /\ UNCHANGED <<foundation, cache, deps, file, seen, fs, log, raw, imp, calls>>

\* one iteration of the class loop
WriteClassHeader ==
    /\ pc = "classes"
    /\ idx <= Len(Cur.Classes)
    /\ \E outcome \in WriteOutcomes :
         LET class == SortStableByName(Cur.Classes)[idx]
             hinfo == classHeader(Cur, confName, imps, class)
         IN  /\ writeHeader(hinfo, outcome, "class", idx, class.Name)
             /\ pc' = afterWrite(outcome, pc)
             /\ headers' = IF outcome = "ok"
                           THEN Append(headers, Base(hinfo.FileName))
                           ELSE headers
             /\ idx' = IF outcome = "ok" THEN idx + 1 ELSE idx
    /\ UNCHANGED <<foundation, cache, deps, file, confName, bin, imps, seen,
                   raw, imp, calls>>

\* the class loop is over: the protocol list is read and `seen` is made
EndClasses ==
    /\ pc = "classes"
    /\ idx > Len(Cur.Classes)
    /\ pc' = "protos"
    /\ idx' = 1
    /\ seen' = {}
    /\ UNCHANGED <<foundation, cache, deps, file, confName, bin, headers, imps,
                   fs, log, err, raw, imp, calls>>

\* one iteration of the protocol loop: a Foundation protocol and an identity
\* already seen are skipped
WriteProtocolHeader ==
    /\ pc = "protos"
    /\ idx <= Len(Cur.Protos)
    /\ LET proto == SortStableByName(Cur.Protos)[idx]
           hinfo == protocolHeader(Cur, confName, imps, proto)
       IN  IF BinarySearch(foundation.protocols, proto.Name) \/ proto.Ptr \in seen
           THEN /\ idx' = idx + 1
                /\ UNCHANGED <<pc, headers, seen, fs, log, err>>
           ELSE \E outcome \in WriteOutcomes :
                    /\ writeHeader(hinfo, outcome, "protocol", idx, proto.Name)
                    /\ pc' = afterWrite(outcome, pc)
                    /\ headers' = IF outcome = "ok"
                                  THEN Append(headers, Base(hinfo.FileName))
                                  ELSE headers
                    /\ seen' = IF outcome = "ok" THEN seen \cup {proto.Ptr} ELSE seen
                    /\ idx' = IF outcome = "ok" THEN idx + 1 ELSE idx
    /\ UNCHANGED <<foundation, cache, deps, file, confName, bin, imps, raw,
                   imp, calls>>

\* the protocol loop is over: the category list is read
EndProtocols ==
    /\ pc = "protos"
    /\ idx > Len(Cur.Protos)
    /\ err' = IF Cur.ParseErr = "categories" THEN Cur.ParseErr ELSE err
    /\ pc' = IF Cur.ParseErr = "categories" THEN "done" ELSE "cats"
    /\ idx' = 1
    /\ UNCHANGED <<foundation, cache, deps, file, confName, bin, headers, imps,
                   seen, fs, log, raw, imp, calls>>

\* one iteration of the category loop
WriteCategoryHeader ==
    /\ pc = "cats"
    /\ idx <= Len(Cur.Cats)
    /\ \E outcome \in WriteOutcomes :
         LET cat == SortStableByName(Cur.Cats)[idx]
             hinfo == categoryHeader(Cur, confName, imps, cat)
         IN  /\ writeHeader(hinfo, outcome, "category", idx, cat.Name)
             /\ pc' = afterWrite(outcome, pc)
             /\ headers' = IF outcome = "ok"
                           THEN Append(headers, Base(hinfo.FileName))
                           ELSE headers
             /\ idx' = IF outcome = "ok" THEN idx + 1 ELSE idx
    /\ UNCHANGED <<foundation, cache, deps, file, confName, bin, imps, seen,
                   raw, imp, calls>>

\* the rest of writeHeaders: the umbrella header if any header was emitted,
\* then the return to Headers, which goes to the next binary or returns
WriteUmbrella ==
    /\ pc = "cats"
    /\ idx > Len(Cur.Cats)
    /\ \E outcome \in (IF Len(headers) > 0 THEN WriteOutcomes ELSE {"ok"}) :
         /\ IF Len(headers) > 0
            THEN writeHeader(umbrellaHeader(Cur, confName, headers), outcome,
                             "umbrella", 0, umbrellaName(Cur, confName, headers))
            ELSE UNCHANGED <<fs, log, err>>
         /\ pc' = afterWrite(outcome, IF bin < Len(Binaries) THEN "binary" ELSE "done")
         /\ bin' = IF outcome = "ok" /\ bin < Len(Binaries) THEN bin + 1 ELSE bin
    /\ UNCHANGED <<foundation, cache, deps, file, confName, idx, headers, imps,
                   seen, raw, imp, calls>>

Next ==
    \/ ScanFoundation
    \/ EnterBinary
    \/ WriteClassHeader
    \/ EndClasses
    \/ WriteProtocolHeader
    \/ EndProtocols
    \/ WriteCategoryHeader
    \/ WriteUmbrella

----------------------------------------------------------------------------
(* Inputs of ObjC.Headers.                                                 *)

\* descriptors (classes, protocols and categories together) of the primary
\* binary
MaxDescs == 3
\* dependency binaries
MaxDeps == 1

M == <<"M">>
N == <<"N">>
DashName == <<"X", "-", "Y">>

\* o.conf.Name as the caller configured it
ConfiguredName == M

PropX == <<"x">>

\* class A with a property, its backing ivar and its accessors
RichA ==
    [Name |-> A, SuperClass |-> NSObject, Protocols |-> <<P, NSCopying>>,
     Ivars |-> <<[Name |-> <<"_", "x">>, Type |-> Quoted(B)],
                 [Name |-> <<"y">>, Type |-> <<"i">>]>>,
     Props |-> <<[Name |-> PropX, Type |-> Pointer(B)]>>,
     InstanceMethods |->
         <<[Name |-> PropX, Args |-> <<TypeId, TypeSEL>>],
           [Name |-> <<"s", "e", "t", "X", ":">>,
            Args |-> <<TypeId, TypeSEL, Pointer(B)>>],
           [Name |-> <<"r", "u", "n">>, Args |-> <<TypeId, TypeSEL>>]>>,
     ClassMethods |-> <<[Name |-> PropX, Args |-> <<TypeId, TypeSEL>>]>>]

ClassPool == {RichA, PlainClass(A), PlainClass(M)}

ProtoPool == {[Name |-> P, Ptr |-> 1], [Name |-> P, Ptr |-> 2],
              [Name |-> NSCopying, Ptr |-> 3]}

CatPool == {[Name |-> DashName, Class |-> A], [Name |-> A, Class |-> B],
            [Name |-> M, Class |-> <<>>], [Name |-> M, Class |-> A]}

DylibN == <<"/", "L", "/", "N">>

BuildVersion == <<"b">>
SourceVersion == <<"s">>

ObjCBinary(id, cs, ps, ks) ==
    [HasObjC |-> TRUE, DylibID |-> id, ParseErr |-> "",
     BuildVersions |-> <<BuildVersion>>, SourceVersion |-> SourceVersion,
     Classes |-> cs, Protos |-> ps, Cats |-> ks]

\* a dependency with ObjC metadata, one without, one whose category list
\* cannot be decoded
DepPool ==
    {ObjCBinary(DylibN, <<PlainClass(A)>>, <<>>, <<[Name |-> M, Class |-> <<>>]>>),
     [IdleBinary EXCEPT !.DylibID = DylibN],
     [ObjCBinary(DylibN, <<PlainClass(A)>>, <<>>, <<>>) EXCEPT !.ParseErr = "categories"]}

Image(fail, cs, ps) ==
    [Fail |-> fail, Classes |-> [k \in 1..Len(cs) |-> [Name |-> cs[k]]],
     Protos |-> [k \in 1..Len(ps) |-> [Name |-> ps[k]]]]

FoundationImage == Image("", <<NSString, NSObject>>, <<NSObject, NSCopying>>)
CoreFoundationImage == Image("", <<NSObject>>, <<>>)

\* the shared caches whose reference images load
GoodCaches == {<<FoundationImage, CoreFoundationImage>>}

\* the shared caches one of whose reference images fails to load
BadCaches ==
    {<<[FoundationImage EXCEPT !.Fail = "image"], CoreFoundationImage>>,
     <<FoundationImage, [CoreFoundationImage EXCEPT !.Fail = "macho"]>>,
     <<FoundationImage, [FoundationImage EXCEPT !.Fail = "protocols"]>>}

\* NewObjC loads dependencies only from a shared cache
RunConfigs ==
    {<<NilCache, <<>>>>}
        \cup {<<c, d>> : c \in GoodCaches, d \in SeqsUpTo(DepPool, MaxDeps)}
        \cup {<<c, <<>>>> : c \in BadCaches}

InitRun ==
    /\ IdleUniq
    /\ pc = "start"
    /\ foundation = EmptyIndex
    /\ confName = ConfiguredName
    /\ bin = 0 /\ idx = 0 /\ headers = <<>> /\ imps = <<>> /\ seen = {}
    /\ fs = <<>> /\ log = <<>> /\ err = ""
    /\ \E rc \in RunConfigs : cache = rc[1] /\ deps = rc[2]

Init ==
    /\ InitRun
    /\ \E n1 \in 0..MaxDescs : \E n2 \in 0..(MaxDescs - n1) :
       \E n3 \in 0..(MaxDescs - n1 - n2) :
       \E cs \in SeqsOfLen(ClassPool, n1) : \E ps \in SeqsOfLen(ProtoPool, n2) :
       \E ks \in SeqsOfLen(CatPool, n3) : \E id \in {<<>>, DylibN} :
           file = ObjCBinary(id, cs, ps, ks)

Spec == Init /\ [][Next]_vars

----------------------------------------------------------------------------
(* The headers of a run in which every writeHeader call succeeds, as a     *)
(* function of the binaries: what Headers emits, in order.                 *)

classEmits(m, name, im) ==
    LET cs == SortStableByName(m.Classes)
    IN  [k \in 1..Len(cs) |-> classHeader(m, name, im, cs[k])]

RECURSIVE protoEmits(_, _, _, _, _, _)
protoEmits(m, name, im, f, ps, seenPtrs) ==
    IF ps = <<>> THEN <<>>
    ELSE IF BinarySearch(f.protocols, Head(ps).Name) \/ Head(ps).Ptr \in seenPtrs
    THEN protoEmits(m, name, im, f, Tail(ps), seenPtrs)
    ELSE <<protocolHeader(m, name, im, Head(ps))>>
             \o protoEmits(m, name, im, f, Tail(ps), seenPtrs \cup {Head(ps).Ptr})

catEmits(m, name, im) ==
    LET ks == SortStableByName(m.Cats)
    IN  [k \in 1..Len(ks) |-> categoryHeader(m, name, im, ks[k])]

\* writeHeaders(m) entered with o.conf.Name = name0
binaryEmits(m, name0, f) ==
    LET name == moduleName(m, name0)
        im == processForwardDeclarations(m, f).imps
        hs == classEmits(m, name, im)
                  \o protoEmits(m, name, im, f, SortStableByName(m.Protos), {})
                  \o catEmits(m, name, im)
        bases == [k \in 1..Len(hs) |-> Base(hs[k].FileName)]
    IN  IF ~m.HasObjC \/ hs = <<>> THEN <<>>
        ELSE hs \o <<umbrellaHeader(m, name, bases)>>

RECURSIVE runEmits(_, _, _)
runEmits(bins, name0, f) ==
    IF bins = <<>> THEN <<>>
    ELSE binaryEmits(Head(bins), name0, f)
             \o runEmits(Tail(bins),
                         IF Head(bins).HasObjC
                         THEN moduleName(Head(bins), name0) ELSE name0, f)

\* the file system after the given headers were written in order
RECURSIVE FilesOf(_, _)
FilesOf(files, hs) ==
    IF hs = <<>> THEN files
    ELSE FilesOf(Put(files, Head(hs).FileName, headerText(Head(hs))), Tail(hs))

\* a run that ended without error wrote exactly the headers of runEmits
RunMatchesEmits ==
    pc = "done" /\ err = "" =>
        fs = FilesOf(<<>>, runEmits(Binaries, ConfiguredName, foundation))

----------------------------------------------------------------------------
(* Claims on ObjC.Headers.                                                 *)

Perms(q) == {[k \in 1..Len(q) |-> q[pi[k]]] : pi \in Permutations(1..Len(q))}

Succeeded == pc = "done" /\ err = ""

\* the positions of log that are calls of the given kind for binary b
Calls(b, kind) == {k \in 1..Len(log) : log[k].Bin = b /\ log[k].Kind = kind}

\* C4: Headers is deterministic under the order of the descriptors: the
\* files a successful run leaves (the umbrella and its line order among
\* them) are those of a run on any permutation of the primary binary's
\* class, protocol and category lists.
C4_OrderIndependent ==
    Succeeded =>
        \A cs \in Perms(file.Classes) : \A ps \in Perms(file.Protos) :
        \A ks \in Perms(file.Cats) :
            FilesOf(<<>>, runEmits(deps \o <<[file EXCEPT !.Classes = cs,
                                                          !.Protos = ps,
                                                          !.Cats = ks]>>,
                                   ConfiguredName, foundation)) = fs

\* the identities of the protocols of binary b that are not in the
\* FoundationIndex
ProtocolIdentities(b) ==
    {Binaries[b].Protos[k].Ptr : k \in
        {j \in 1..Len(Binaries[b].Protos) :
            Binaries[b].Protos[j].Name \notin SetOf(foundation.protocols)}}

\* C5: protocol headers are emitted once per distinct identity: a binary's
\* non-Foundation protocols yield as many protocol header files, and as
\* many umbrella entries, as they have distinct identities.
C5_OneHeaderPerIdentity ==
    Succeeded =>
        \A b \in 1..Len(Binaries) :
            Binaries[b].HasObjC =>
                /\ Cardinality({log[k].Path : k \in Calls(b, "protocol")})
                       = Cardinality(ProtocolIdentities(b))
                /\ Cardinality(Calls(b, "protocol"))
                       = Cardinality(ProtocolIdentities(b))

----------------------------------------------------------------------------
(* Accessor stripping: Headers on one class whose properties, ivars and    *)
(* methods are drawn from names that do and do not match a property.       *)

\* ivars, and instance methods, of the drawn class
MaxMembers == 2

PropY == <<"y">>

StripPropSets ==
    {<<>>, <<[Name |-> PropX, Type |-> TypeInt]>>,
     <<[Name |-> PropY, Type |-> TypeInt], [Name |-> PropX, Type |-> TypeInt]>>}

StripIvarPool ==
    {[Name |-> n, Type |-> <<"i">>] :
        n \in {<<"_", "x">>, <<"x">>, <<"_", "_", "x">>, <<"z">>}}

StripMethodPool ==
    {[Name |-> n, Args |-> <<TypeId, TypeSEL>>] :
        n \in {<<"x">>, <<"s", "e", "t", "X", ":">>, <<"s", "e", "t", "x", ":">>,
               <<"r", "u", "n">>, <<"s", "e", "t", "Y">>}}

StripClassMethodSets ==
    {<<>>, <<[Name |-> PropX, Args |-> <<TypeId, TypeSEL>>]>>,
     <<[Name |-> <<"s", "e", "t", "X", ":">>, Args |-> <<TypeId, TypeSEL>>]>>}

InitStrip ==
    /\ InitRun
    /\ cache = NilCache
    /\ \E ps \in StripPropSets : \E is \in SeqsUpTo(StripIvarPool, MaxMembers) :
       \E ms \in SeqsUpTo(StripMethodPool, MaxMembers) :
       \E cms \in StripClassMethodSets :
           file = ObjCBinary(<<>>,
                             <<[PlainClass(A) EXCEPT !.Props = ps, !.Ivars = is,
                                                     !.InstanceMethods = ms,
                                                     !.ClassMethods = cms]>>,
                             <<[Name |-> P, Ptr |-> 1]>>,
                             <<[Name |-> DashName, Class |-> A]>>)

SpecStrip == InitStrip /\ [][Next]_vars

\* the ivar name with one optional leading underscore stripped is a property
IvarBacksProperty(class, ivar) ==
    LET bare == IF ivar.Name # <<>> /\ ivar.Name[1] = "_"
                THEN Tail(ivar.Name)
                ELSE ivar.Name
    IN  \E p \in 1..Len(class.Props) : bare = class.Props[p].Name

\* sel is `set`, a name whose first letter lowered gives prop, and at most
\* one `:`
IsSetterOf(sel, prop) ==
    \E colon \in {<<>>, <<":">>} : \E first \in {prop[1]} \cup SetOf(UpperLetters) :
        /\ prop # <<>>
        /\ ToLower(first) = prop[1]
        /\ sel = SetText \o <<first>> \o Tail(prop) \o colon

\* the selector is the getter or the setter of a property
IsAccessor(class, method) ==
    \E p \in 1..Len(class.Props) :
        \/ method.Name = class.Props[p].Name
        \/ IsSetterOf(method.Name, class.Props[p].Name)

GuardName(text) == TrimSuffix(TrimPrefix(text.Ifndef, IfndefText), GuardSuffix)

\* C7 as claimed: the umbrella is `<Module>-Umbrella.h` exactly when a class
\* header `<Module>.h` was emitted for the binary, else `<Module>.h`.
C7_UmbrellaIffClassHeader ==
    \A u \in 1..Len(log) :
        log[u].Kind = "umbrella" =>
            LET clash == \E k \in Calls(log[u].Bin, "class") :
                             Base(log[k].Path) = log[u].Module \o DotH
            IN  Base(log[u].Path) =
                    (IF clash THEN log[u].Module \o UmbrellaSuffix
                              ELSE log[u].Module) \o DotH

\* C7 as amended: the umbrella is `<Module>-Umbrella.h` exactly when some
\* header of the binary, of a class, a protocol or a category, was emitted
\* under the file name `<Module>.h`, else `<Module>.h`.
C7_UmbrellaIffAnyHeader ==
    \A u \in 1..Len(log) :
        log[u].Kind = "umbrella" =>
            LET clash == \E k \in 1..(u - 1) :
                             /\ log[k].Bin = log[u].Bin
                             /\ Base(log[k].Path) = log[u].Module \o DotH
            IN  /\ Base(log[u].Path) =
                       (IF clash THEN log[u].Module \o UmbrellaSuffix
                                 ELSE log[u].Module) \o DotH
                /\ Dir(log[u].Path) = log[u].Module

\* an umbrella was written as `<Module>-Umbrella.h` for a binary with no
\* class named like the module, and another beside a class header
C7_Witness ==
    \E u \in 1..Len(log) :
        /\ log[u].Kind = "umbrella"
        /\ log[u].Outcome = "ok"
        /\ Base(log[u].Path) = log[u].Module \o UmbrellaSuffix \o DotH
        /\ \E k \in Calls(log[u].Bin, "class") : TRUE
        /\ ~\E k \in Calls(log[u].Bin, "class") :
               Base(log[k].Path) = log[u].Module \o DotH

\* C8: the include-guard name read back from the `#ifndef <X>_h` line of
\* every header (class, protocol, category or umbrella) is the entity name
\* with every `-` replaced by `_`.
C8_GuardRoundTripAll ==
    \A k \in 1..Len(log) :
        GuardName(log[k].Text) = ReplaceAll(log[k].Entity, "-", "_")

\* the files the successful calls of log leave behind
RECURSIVE Replay(_, _)
Replay(files, calls_) ==
    IF calls_ = <<>> THEN files
    ELSE Replay(IF Head(calls_).Outcome = "ok"
                THEN Put(files, Head(calls_).Path, Head(calls_).Text)
                ELSE files,
                Tail(calls_))

\* C9: a failing writeHeader call is the last one Headers makes: Headers
\* has returned an error, no call follows the failing one, and every file
\* written before the failure is left as it was written.
C9_WriteFailureIsFatal ==
    \A k \in 1..Len(log) :
        log[k].Outcome # "ok" =>
            /\ k = Len(log)
            /\ pc = "done"
            /\ err \in {"mkdir", "write"}
            /\ LET before == Replay(<<>>, SubSeq(log, 1, k - 1))
               IN  \A path \in DOMAIN before :
                       path \in DOMAIN fs /\ fs[path] = before[path]

\* the class whose Imports end up stored under name: the last of that name
\* in sorted order
LastNamed(classes, name) ==
    LET cs == SortStableByName(classes)
    IN  cs[CHOOSE j \in 1..Len(cs) :
               /\ cs[j].Name = name
               /\ \A i \in (j + 1)..Len(cs) : cs[i].Name # name]

\* the first failing reference image of a shared cache
FirstFailure(c) == IF c[1].Fail # "" THEN c[1].Fail ELSE c[2].Fail

\* C10: without a shared cache scanFoundation succeeds with both sets empty
\* and Headers writes its headers unsuppressed (every protocol gets a header
\* and the imports of a class header are all the raw references stored
\* under its name); with a shared cache one of whose reference images fails to
\* load, Headers returns that error and no header is written.
C10_FoundationIndex ==
    pc # "start" =>
        /\ cache = NilCache =>
               /\ foundation = EmptyIndex
               /\ err \in {"", "mkdir", "write", "categories"}
               /\ Succeeded =>
                      /\ \A j \in 1..Len(file.Protos) :
                             \E k \in Calls(1, "protocol") :
                                 log[k].Entity = file.Protos[j].Name
                      /\ \A k \in Calls(1, "class") :
                             LET class == LastNamed(file.Classes, log[k].Entity)
                                 refs == classRefs(class, SetToNames(LocalClassNames),
                                                   SetToNames(LocalProtoNames))
                             IN  /\ SetOf(log[k].Text.Includes) = SetOf(refs.Locals)
                                 /\ SetOf(log[k].Text.ClassDecl) = SetOf(refs.Classes)
                                 /\ SetOf(log[k].Text.ProtocolDecl) = SetOf(refs.Protos)
        /\ (cache # NilCache /\ FirstFailure(cache) # "") =>
               /\ pc = "done"
               /\ err = FirstFailure(cache)
               /\ log = <<>>
               /\ fs = <<>>

\* without a shared cache a run wrote the header of a protocol and the
\* forward declaration of a name that a FoundationIndex would suppress
C10_Witness ==
    /\ cache = NilCache
    /\ Succeeded
    /\ \E k \in Calls(1, "protocol") : log[k].Entity = NSCopying
    /\ \E k \in Calls(1, "class") :
           NSCopying \o ProtocolH \in SetOf(log[k].Text.Includes)

\* a sequence without a repeated element
NoDuplicates(s) == \A i, j \in 1..Len(s) : s[i] = s[j] => i = j

\* C11: after scanFoundation with a shared cache whose images load, each of
\* the two FoundationIndex sequences is sorted and holds no name twice.
C11_IndexSortedNoDuplicates ==
    (pc # "start" /\ cache # NilCache /\ FirstFailure(cache) = "") =>
        /\ IsSorted(foundation.classes) /\ NoDuplicates(foundation.classes)
        /\ IsSorted(foundation.protocols) /\ NoDuplicates(foundation.protocols)

----------------------------------------------------------------------------
(* Claims on the references processForwardDeclarations collects.           *)

\* the instance and class methods of the classes of the binary
AllMethods ==
    UNION {SetOf(file.Classes[k].InstanceMethods)
               \cup SetOf(file.Classes[k].ClassMethods) :
           k \in 1..Len(file.Classes)}

\* C12: for every instance and class method with n arguments the argument
\* loop classifies exactly the indices 0, 2, 3, ..., n-1: index 1 is the
\* only index it never classifies.
C12_ArgumentWalk ==
    pc = "declared" =>
        \A method \in AllMethods :
            SetOf(ArgIndices(method)) = (0..(Len(method.Args) - 1)) \ {1}

\* the class name of an ivar encoding `@"Name"`
IvarClassNames(class) ==
    {SubSeq(t, 3, Len(t) - 1) :
        t \in {class.Ivars[k].Type : k \in
                  {j \in 1..Len(class.Ivars) :
                      /\ HasPrefix(class.Ivars[j].Type, <<"@", "\"">>)
                      /\ ~ContainsAny(class.Ivars[j].Type, {"<", ">"})}}}

\* the class name of a declaration `Name *`
PointerClassNames(types) ==
    {SubSeq(t, 1, Len(t) - 2) :
        t \in {u \in types : /\ HasSuffix(u, <<" ", "*">>)
                             /\ IsUpperLetter(u[1])
                             /\ ~ContainsAny(u, {"<", ">"})}}

\* the types of the arguments the argument loop classifies
ClassifiedArgTypes(methods) ==
    UNION {{methods[k].Args[i + 1] : i \in SetOf(ArgIndices(methods[k]))} :
           k \in 1..Len(methods)}

\* the names resolved as claimed in the Imports im: a class of the binary is
\* the local include `Name.h` and not in Classes, any other name is in
\* Classes
ResolvedLocally(names, im) ==
    \A n \in names :
        IF n \in LocalClassNames
        THEN n \o DotH \in SetOf(im.Locals) /\ n \notin SetOf(im.Classes)
        ELSE n \in SetOf(im.Classes)

\* C13: every class reference of class A found in an ivar `@"Name"`, a
\* property `Name *` or a classified method argument `Name *` is the local
\* include `Name.h` and adds nothing to Classes when Name is a class of the
\* binary, and is the bare name in Classes when it is not.
C13_ClassRefsResolveLocally ==
    (pc = "declared" /\ A \in DOMAIN imps) =>
        LET class == file.Classes[1]
        IN  /\ ResolvedLocally(IvarClassNames(class), imps[A])
            /\ ResolvedLocally(
                   PointerClassNames({class.Props[k].Type : k \in 1..Len(class.Props)}),
                   imps[A])
            /\ ResolvedLocally(
                   PointerClassNames(ClassifiedArgTypes(class.InstanceMethods)
                                         \cup ClassifiedArgTypes(class.ClassMethods)),
                   imps[A])

\* the type string with `@"`, `"`, `*` and spaces stripped
StripEncoding(t) == Trim(t, {"@", "\"", " ", "*"})

\* the PROTOLIST of every ivar and property of the form NSObject<PROTOLIST>
NSObjectLists(class) ==
    {SubSeq(t, Len(NSObjectLt) + 1, Len(t) - 1) :
        t \in {u \in {StripEncoding(class.Ivars[k].Type) : k \in 1..Len(class.Ivars)}
                     \cup {StripEncoding(class.Props[k].Type) : k \in 1..Len(class.Props)} :
                  HasPrefix(u, NSObjectLt) /\ HasSuffix(u, <<">">>)}}

\* the first of the comma-separated names of a list
FirstName(list) ==
    IF \E k \in 1..Len(list) : list[k] = ","
    THEN SubSeq(list, 1, (CHOOSE k \in 1..Len(list) :
                              /\ list[k] = ","
                              /\ \A j \in 1..(k - 1) : list[j] # ",") - 1)
    ELSE list

\* C14: for every ivar and property of class A of the form
\* NSObject<PROTOLIST>, the first name of PROTOLIST is referenced as a
\* protocol: the local include `Name-Protocol.h` if the binary has the
\* protocol, the forward declaration Name if not.
C14_FirstProtocolOfList ==
    (pc = "declared" /\ A \in DOMAIN imps) =>
        \A list \in NSObjectLists(file.Classes[1]) :
            LET first == FirstName(list)
            IN  IF first \in LocalProtoNames
                THEN first \o ProtocolH \in SetOf(imps[A].Locals)
                ELSE first \in SetOf(imps[A].Protos)

----------------------------------------------------------------------------
(* Claims on the Imports of protocol and category headers, the umbrella    *)
(* and the module directories.                                             *)

\* the binary with the ivars, properties and methods of its classes removed
WithoutClassMembers(m) ==
    [m EXCEPT !.Classes =
        [k \in 1..Len(m.Classes) |->
            [m.Classes[k] EXCEPT !.Ivars = <<>>, !.Props = <<>>,
                                 !.InstanceMethods = <<>>, !.ClassMethods = <<>>]]]

\* C15: the Imports rendered into a protocol header and into a category
\* header do not depend on the ivars, properties or methods of any class of
\* the binary: the header is the one rendered for the same binary with
\* these members removed from every class.
C15_ImportsIndependentOfClasses ==
    \A k \in 1..Len(log) :
        log[k].Kind \in {"protocol", "category"} =>
            LET m == Binaries[log[k].Bin]
                im == processForwardDeclarations(WithoutClassMembers(m), foundation).imps
                hinfo == IF log[k].Kind = "protocol"
                         THEN protocolHeader(m, log[k].Module, im,
                                             SortStableByName(m.Protos)[log[k].Idx])
                         ELSE categoryHeader(m, log[k].Module, im,
                                             SortStableByName(m.Cats)[log[k].Idx])
            IN  log[k].Text = headerText(hinfo)

\* the writeHeader calls of binary b, in the order they were made
CallsOf(b) == SelectSeq([k \in 1..Len(log) |-> k], LAMBDA k : log[k].Bin = b)

KindRank(kind) ==
    CASE kind = "class" -> 1 [] kind = "protocol" -> 2
      [] kind = "category" -> 3 [] OTHER -> 4

\* C16: the umbrella of a binary is the last header written for it, after
\* at least one class, protocol or category header; its body is one
\* `#import` line per header emitted for the binary, in emission order:
\* classes by name, then protocols by name, then categories by name; a
\* binary that emitted no header gets no umbrella, and a binary whose
\* headers were all written gets one.
C16_UmbrellaAssembly ==
    /\ \A u \in 1..Len(log) :
           log[u].Kind = "umbrella" =>
               LET ks == CallsOf(log[u].Bin)
                   n == Len(ks)
               IN  /\ n >= 2
                   /\ ks[n] = u
                   /\ \A i \in 1..(n - 1) :
                          /\ log[ks[i]].Kind # "umbrella"
                          /\ log[ks[i]].Outcome = "ok"
                   /\ \A i \in 1..(n - 2) :
                          \/ KindRank(log[ks[i]].Kind) < KindRank(log[ks[i + 1]].Kind)
                          \/ /\ log[ks[i]].Kind = log[ks[i + 1]].Kind
                             /\ ~StrLess(log[ks[i + 1]].Entity, log[ks[i]].Entity)
                   /\ log[u].Text.Object =
                          [i \in 1..(n - 1) |->
                              ImportText \o Base(log[ks[i]].Path) \o <<"\"">>]
    /\ Succeeded =>
           \A b \in 1..Len(Binaries) :
               CallsOf(b) # <<>> => log[CallsOf(b)[Len(CallsOf(b))]].Kind = "umbrella"

\* a run ended in which the umbrella of the primary binary lists a class, a
\* protocol and a category header, after a dependency that emitted none
C16_Witness ==
    /\ Succeeded
    /\ Len(Binaries) = 2
    /\ CallsOf(1) = <<>>
    /\ \E u \in 1..Len(log) :
           /\ log[u].Kind = "umbrella" /\ log[u].Bin = 2
           /\ Len(log[u].Text.Object) = 3
           /\ {log[k].Kind : k \in 1..(u - 1)} = {"class", "protocol", "category"}

\* the module name of binary b by itself: its dynamic-library identity if
\* it has one, the name the caller configured if not
OwnModule(b) ==
    IF Binaries[b].DylibID # <<>> THEN Base(Binaries[b].DylibID) ELSE ConfiguredName

\* C17: every header of a run is written under the directory of its own
\* binary's module name, whatever binaries were processed before it, and no
\* header of one binary is written to the path of a header of a binary with
\* a different module.
C17_ModuleIsolation ==
    /\ \A k \in 1..Len(log) :
           /\ log[k].Module = OwnModule(log[k].Bin)
           /\ Dir(log[k].Path) = OwnModule(log[k].Bin)
    /\ \A j, k \in 1..Len(log) :
           (log[j].Path = log[k].Path /\ log[j].Bin # log[k].Bin)
               => OwnModule(log[j].Bin) = OwnModule(log[k].Bin)

============================================================================
